---- MODULE Spec2Model ----
(***************************************************************************)
(* A model of the PhoneHub customer-support agent:                         *)
(*   src/phone_support_bot.py   tool functions, router, graph nodes        *)
(*   src/tools/support_tools.py AppointmentSystem and the mock stores      *)
(* Python str values are TLA+ strings; an Optional[str] argument is the    *)
(* empty tuple (None) or a one-element tuple holding the string.           *)
(***************************************************************************)
EXTENDS Integers, Sequences, FiniteSets, TLC

VARIABLES
    messages,       \* AgentState["messages"]: sequence of [role, content]
    current_step,   \* AgentState["current_step"]
    needs_human,    \* AgentState["needs_human"]
    collected_info, \* AgentState["collected_info"]
    routed,         \* the label router returned for the current history, or None
    pc,             \* the step taken last: start, user, router, a node's name, no_handler
    raised,         \* the exception the last node invocation raised, or "none"
    appointments,   \* AppointmentSystem.appointments: id -> appointment
    next_id,        \* AppointmentSystem.next_id
    returned,       \* what AppointmentSystem.book_appointment returned, in call order
    now,            \* the wall clock read by datetime.now(), in ticks
    booked,         \* appointment ids synthesized by book_appointment, in call order
    call,           \* the last tool call: [op, args, ret, ...]
    phones,         \* PhoneInventory.phones
    rs_repair_prices, \* RepairServices.repair_prices (get_repair_info has its own table)
    orders,         \* OrderTracking.orders
    faq             \* PolicyFAQ.faq

vars == <<messages, current_step, needs_human, collected_info, routed, pc, raised,
          appointments, next_id, returned, now, booked, call,
          phones, rs_repair_prices, orders, faq>>

sessionVars == <<messages, current_step, needs_human, collected_info, routed, pc, raised>>
apptVars == <<appointments, next_id, returned>>
toolVars == <<now, booked, call>>
storeVars == <<phones, rs_repair_prices, orders, faq>>

(***************************************************************************)
(* Python values and str operations                                        *)
(***************************************************************************)
None == <<>>

Some(s) == <<s>>

\* bool(x) of an Optional[str]: None and "" are falsy
Truthy(o) == o # None /\ o[1] # ""

CharAt(s, i) == SubSeq(s, i, i)

\* k in s, for two str
Contains(k, s) ==
    \E i \in 1..(Len(s) - Len(k) + 1) : SubSeq(s, i, i + Len(k) - 1) = k

LowerChar(c) ==
    CASE c = "A" -> "a" [] c = "B" -> "b" [] c = "C" -> "c" [] c = "D" -> "d"
      [] c = "E" -> "e" [] c = "F" -> "f" [] c = "G" -> "g" [] c = "H" -> "h"
      [] c = "I" -> "i" [] c = "J" -> "j" [] c = "K" -> "k" [] c = "L" -> "l"
      [] c = "M" -> "m" [] c = "N" -> "n" [] c = "O" -> "o" [] c = "P" -> "p"
      [] c = "Q" -> "q" [] c = "R" -> "r" [] c = "S" -> "s" [] c = "T" -> "t"
      [] c = "U" -> "u" [] c = "V" -> "v" [] c = "W" -> "w" [] c = "X" -> "x"
      [] c = "Y" -> "y" [] c = "Z" -> "z" [] OTHER -> c

\* str.lower()
RECURSIVE Lower(_)
Lower(s) ==
    IF Len(s) = 0 THEN ""
    ELSE IF Len(s) = 1 THEN LowerChar(s)
    ELSE LET h == Len(s) \div 2
         IN  Lower(SubSeq(s, 1, h)) \o Lower(SubSeq(s, h + 1, Len(s)))

\* ', '.join(seq)
RECURSIVE JoinComma(_)
JoinComma(seq) ==
    IF Len(seq) = 0 THEN ""
    ELSE IF Len(seq) = 1 THEN seq[1]
    ELSE seq[1] \o ", " \o JoinComma(Tail(seq))

IsDigit(c) == c \in {"0", "1", "2", "3", "4", "5", "6", "7", "8", "9"}

DigitVal(c) ==
    CASE c = "0" -> 0 [] c = "1" -> 1 [] c = "2" -> 2 [] c = "3" -> 3
      [] c = "4" -> 4 [] c = "5" -> 5 [] c = "6" -> 6 [] c = "7" -> 7
      [] c = "8" -> 8 [] c = "9" -> 9

DigitChar(d) ==
    CASE d = 0 -> "0" [] d = 1 -> "1" [] d = 2 -> "2" [] d = 3 -> "3"
      [] d = 4 -> "4" [] d = 5 -> "5" [] d = 6 -> "6" [] d = 7 -> "7"
      [] d = 8 -> "8" [] d = 9 -> "9"

\* str(n) for n >= 0
RECURSIVE IntStr(_)
IntStr(n) == IF n < 10 THEN DigitChar(n) ELSE IntStr(n \div 10) \o DigitChar(n % 10)

\* format(n, "0<w>d"): zero-padded to at least w digits, never cut
RECURSIVE ZeroPad(_, _)
ZeroPad(s, w) == IF Len(s) >= w THEN s ELSE ZeroPad("0" \o s, w)

\* int(s) of a digit string
RECURSIVE StrInt(_)
StrInt(s) ==
    IF Len(s) = 0 THEN 0
    ELSE 10 * StrInt(SubSeq(s, 1, Len(s) - 1)) + DigitVal(CharAt(s, Len(s)))

AllDigits(s) == \A i \in 1..Len(s) : IsDigit(CharAt(s, i))

(***************************************************************************)
(* phone_support_bot.py: the mock stores                                   *)
(***************************************************************************)
\* PHONE_INVENTORY.keys(), in insertion order
InventoryKeys == <<"iPhone 15", "Samsung Galaxy S23">>

PHONE_INVENTORY ==
    [m \in {"iPhone 15", "Samsung Galaxy S23"} |->
        IF m = "iPhone 15"
        THEN [price |-> "$799",
              storage |-> <<"128GB", "256GB", "512GB">>,
              colors |-> <<"Black", "Blue", "Green", "Yellow", "Pink">>,
              specs |-> [display |-> "6.1-inch Super Retina XDR",
                         camera |-> "48MP Main + 12MP Ultra Wide",
                         battery |-> "Up to 20 hours video playback"]]
        ELSE [price |-> "$799",
              storage |-> <<"128GB", "256GB">>,
              colors |-> <<"Phantom Black", "Cream", "Green", "Lavender">>,
              specs |-> [display |-> "6.1-inch Dynamic AMOLED 2X",
                         camera |-> "50MP Wide + 12MP Ultra Wide + 10MP Telephoto",
                         battery |-> "3900mAh"]]]

REPAIR_JOBS ==
    [t \in {"TICKET-001", "TICKET-002"} |->
        IF t = "TICKET-001"
        THEN [status |-> "In Progress",
              estimated_completion |-> Some("2024-01-15"),
              completed_date |-> None,
              phone |-> "iPhone 14",
              issue |-> "Screen Replacement"]
        ELSE [status |-> "Completed",
              estimated_completion |-> None,
              completed_date |-> Some("2024-01-10"),
              phone |-> "Samsung S22",
              issue |-> "Battery Replacement"]]

\* str(x) inside an f-string: a missing dict.get() value prints as None
FmtOpt(o) == IF o = None THEN "None" ELSE o[1]

(***************************************************************************)
(* support_tools.py: the stores as their constructors fill them. Prices    *)
(* are in cents.                                                           *)
(***************************************************************************)
\* PhoneInventory.__init__
PhoneInventory_phones ==
    [m \in {"iPhone 15 Pro", "Samsung Galaxy S24", "Google Pixel 8"} |->
        CASE m = "iPhone 15 Pro" ->
               [model |-> m, price |-> 99900, stock |-> 15,
                specs |-> [display |-> "6.1-inch Super Retina XDR",
                           processor |-> "A17 Pro",
                           storage |-> "128GB/256GB/512GB/1TB",
                           camera |-> "48MP main + 12MP ultra-wide + 12MP telephoto",
                           battery |-> "Up to 23 hours video playback"],
                colors |-> <<"Black Titanium", "White Titanium", "Blue Titanium",
                             "Natural Titanium">>]
          [] m = "Samsung Galaxy S24" ->
               [model |-> m, price |-> 79999, stock |-> 22,
                specs |-> [display |-> "6.2-inch Dynamic AMOLED 2X",
                           processor |-> "Snapdragon 8 Gen 3",
                           storage |-> "128GB/256GB",
                           camera |-> "50MP main + 12MP ultra-wide + 10MP telephoto",
                           battery |-> "4000mAh"],
                colors |-> <<"Onyx Black", "Marble Gray", "Cobalt Violet", "Amber Yellow">>]
          [] m = "Google Pixel 8" ->
               [model |-> m, price |-> 69900, stock |-> 18,
                specs |-> [display |-> "6.2-inch Actua display",
                           processor |-> "Google Tensor G3",
                           storage |-> "128GB/256GB",
                           camera |-> "50MP main + 12MP ultra-wide",
                           battery |-> "Up to 24 hours"],
                colors |-> <<"Obsidian", "Hazel", "Rose", "Mint">>]]

\* list(self.repair_prices.keys()), in insertion order
RepairIssueKeys ==
    <<"screen_replacement", "battery_replacement", "camera_repair", "water_damage",
      "charging_port">>

PriceEntry(iphone, samsung, google, other, time) ==
    [b \in {"iPhone", "Samsung", "Google", "Other", "time"} |->
        CASE b = "iPhone" -> iphone [] b = "Samsung" -> samsung
          [] b = "Google" -> google [] b = "Other" -> other [] b = "time" -> time]

\* RepairServices.__init__
RepairServices_repair_prices ==
    [i \in {"screen_replacement", "battery_replacement", "camera_repair", "water_damage",
            "charging_port"} |->
        CASE i = "screen_replacement" -> PriceEntry(12999, 11999, 10999, 13999, "1-2 hours")
          [] i = "battery_replacement" -> PriceEntry(8999, 7999, 6999, 9999, "45-60 minutes")
          [] i = "camera_repair" -> PriceEntry(14999, 13999, 12999, 15999, "1-3 hours")
          [] i = "water_damage" -> PriceEntry(19999, 18999, 17999, 21999, "2-4 hours")
          [] i = "charging_port" -> PriceEntry(7999, 6999, 5999, 8999, "30-45 minutes")]

\* OrderTracking.__init__
OrderTracking_orders ==
    [o \in {"ORD001", "ORD002", "REP001"} |->
        CASE o = "ORD001" ->
               [order_id |-> o, customer |-> "John Doe",
                items |-> <<"iPhone 15 Pro", "Case">>, status |-> "Shipped",
                tracking_number |-> Some("UPS123456789"),
                estimated_delivery |-> "2024-01-15"]
          [] o = "ORD002" ->
               [order_id |-> o, customer |-> "Jane Smith",
                items |-> <<"Samsung Galaxy S24">>, status |-> "Processing",
                tracking_number |-> None,
                estimated_delivery |-> "2024-01-20"]
          [] o = "REP001" ->
               [order_id |-> o, customer |-> "Bob Johnson",
                items |-> <<"Screen Replacement">>, status |-> "In Progress",
                tracking_number |-> None,
                estimated_completion |-> "2024-01-12"]]

\* list(self.faq.keys()), in insertion order
FaqTopics == <<"return_policy", "shipping", "warranty", "data_backup", "payment_methods">>

\* PolicyFAQ.__init__
PolicyFAQ_faq ==
    [t \in {"return_policy", "shipping", "warranty", "data_backup", "payment_methods"} |->
        CASE t = "return_policy" ->
               [question |-> "What is your return policy?",
                answer |-> "We offer a 30-day return policy for unused devices in original packaging. Accessories can be returned within 14 days."]
          [] t = "shipping" ->
               [question |-> "What are your shipping options?",
                answer |-> "Standard shipping: 3-5 business days ($5.99), Express: 1-2 business days ($12.99), Overnight: Next day ($24.99)."]
          [] t = "warranty" ->
               [question |-> "Do your repairs come with warranty?",
                answer |-> "Yes, all repairs come with a 90-day warranty on both parts and labor."]
          [] t = "data_backup" ->
               [question |-> "Should I backup my data before repair?",
                answer |-> "Yes! We recommend backing up all data before any repair. We are not responsible for data loss during repair."]
          [] t = "payment_methods" ->
               [question |-> "What payment methods do you accept?",
                answer |-> "We accept Visa, MasterCard, American Express, PayPal, and Apple Pay."]]

\* inventory, repair_services, order_tracking, faq: the module's global instances
InitStores ==
    /\ phones = PhoneInventory_phones
    /\ rs_repair_prices = RepairServices_repair_prices
    /\ orders = OrderTracking_orders
    /\ faq = PolicyFAQ_faq

(***************************************************************************)
(* Tool 1: get_phone_info                                                  *)
(***************************************************************************)
\* [m for m in PHONE_INVENTORY.keys() if brand.lower() in m.lower()]
RECURSIVE MatchingModels(_, _)
MatchingModels(keys, brand) ==
    IF Len(keys) = 0 THEN <<>>
    ELSE (IF Contains(Lower(brand), Lower(keys[1])) THEN <<keys[1]>> ELSE <<>>)
         \o MatchingModels(Tail(keys), brand)

PhoneSheet(model) ==
    LET phone == PHONE_INVENTORY[model]
    IN  "\n        " \o model \o " Information:"
        \o "\n        Price: " \o phone.price
        \o "\n        Available Storage: " \o JoinComma(phone.storage)
        \o "\n        Colors: " \o JoinComma(phone.colors)
        \o "\n        Specifications:"
        \o "\n        - Display: " \o phone.specs.display
        \o "\n        - Camera: " \o phone.specs.camera
        \o "\n        - Battery: " \o phone.specs.battery
        \o "\n        "

BrandAnswer(brand) ==
    LET matching_models == MatchingModels(InventoryKeys, brand)
    IN  IF Len(matching_models) > 0
        THEN "We have these " \o brand \o " models: " \o JoinComma(matching_models)
             \o ". Ask about any specific model!"
        ELSE "Sorry, we don't have " \o brand \o " models in stock currently."

\* a slip that tests the brand before the model
get_phone_info_brand_first(brand, model, feature) ==
    IF Truthy(brand) THEN BrandAnswer(brand[1])
    ELSE IF Truthy(model) /\ model[1] \in DOMAIN PHONE_INVENTORY THEN PhoneSheet(model[1])
    ELSE "Available phones: " \o JoinComma(InventoryKeys)

get_phone_info(brand, model, feature) ==
    IF Truthy(model) /\ model[1] \in DOMAIN PHONE_INVENTORY THEN PhoneSheet(model[1])
    ELSE IF Truthy(brand) THEN BrandAnswer(brand[1])
    ELSE "Available phones: " \o JoinComma(InventoryKeys)

(***************************************************************************)
(* Tool 2: get_repair_info                                                 *)
(***************************************************************************)
\* the keys of repair_prices, in insertion order
RepairPriceKeys == <<"screen", "battery", "camera", "water_damage">>

repair_prices ==
    [k \in {"screen", "battery", "camera", "water_damage"} |->
        CASE k = "screen" -> [iPhone |-> "$199", Samsung |-> "$179", Other |-> "$159"]
          [] k = "battery" -> [iPhone |-> "$89", Samsung |-> "$79", Other |-> "$69"]
          [] k = "camera" -> [iPhone |-> "$149", Samsung |-> "$129", Other |-> "$119"]
          [] k = "water_damage" -> [iPhone |-> "$299", Samsung |-> "$279", Other |-> "$259"]]

\* for key in repair_prices: if key in issue_lower: price_key = key; break
RECURSIVE FirstPriceKey(_, _)
FirstPriceKey(keys, issue_lower) ==
    IF Len(keys) = 0 THEN None
    ELSE IF Contains(keys[1], issue_lower) THEN Some(keys[1])
    ELSE FirstPriceKey(Tail(keys), issue_lower)

\* a slip that tests "samsung" before "iphone"
RepairBrand_samsung_first(phone_type) ==
    IF Contains("samsung", Lower(phone_type)) THEN "Samsung"
    ELSE IF Contains("iphone", Lower(phone_type)) THEN "iPhone"
    ELSE "Other"

RepairBrand(phone_type) ==
    IF Contains("iphone", Lower(phone_type)) THEN "iPhone"
    ELSE IF Contains("samsung", Lower(phone_type)) THEN "Samsung"
    ELSE "Other"

get_repair_info(phone_type, issue, urgency) ==
    LET issue_lower == Lower(issue)
        price_key == FirstPriceKey(RepairPriceKeys, issue_lower)
    IN  IF price_key # None
        THEN LET brand == RepairBrand(phone_type)
                 price == repair_prices[price_key[1]][brand]
                 turnaround == IF urgency = Some("urgent") THEN "1-2 days"
                               ELSE "3-5 business days"
             IN  "\n        Repair Estimate:"
                 \o "\n        Phone: " \o phone_type
                 \o "\n        Issue: " \o issue
                 \o "\n        Estimated Cost: " \o price
                 \o "\n        Turnaround Time: " \o turnaround
                 \o "\n        Warranty: 90 days on all repairs"
                 \o "\n        "
        ELSE "We can repair " \o phone_type \o " with " \o issue
             \o ". Please visit our store for exact pricing."

(***************************************************************************)
(* Tool 3: check_repair_status                                             *)
(***************************************************************************)
InvalidTicketMsg ==
    "Please provide a valid ticket number. You can find it on your repair receipt."

StatusAnswer(ticket_number) ==
    LET job == REPAIR_JOBS[ticket_number]
    IN  IF job.status = "Completed"
        THEN "Repair " \o ticket_number \o " was completed on "
             \o FmtOpt(job.completed_date) \o ". Your " \o job.phone \o " with "
             \o job.issue \o " is ready for pickup!"
        ELSE "Repair " \o ticket_number \o " for " \o job.phone \o " (" \o job.issue
             \o ") is " \o job.status \o ". Estimated completion: "
             \o job.estimated_completion[1] \o "."

\* a slip that accepts any stored id found inside the argument
check_repair_status_partial(ticket_number, order_number, email) ==
    IF Truthy(ticket_number)
       /\ \E k \in DOMAIN REPAIR_JOBS : Contains(k, ticket_number[1])
    THEN StatusAnswer(CHOOSE k \in DOMAIN REPAIR_JOBS : Contains(k, ticket_number[1]))
    ELSE InvalidTicketMsg

check_repair_status(ticket_number, order_number, email) ==
    IF Truthy(ticket_number) /\ ticket_number[1] \in DOMAIN REPAIR_JOBS
    THEN StatusAnswer(ticket_number[1])
    ELSE InvalidTicketMsg

(***************************************************************************)
(* Tool 4: book_appointment                                                *)
(***************************************************************************)
IsLeap(y) == (y % 4 = 0 /\ y % 100 # 0) \/ y % 400 = 0

DaysInMonth(y, m) ==
    IF m = 2 THEN (IF IsLeap(y) THEN 29 ELSE 28)
    ELSE IF m \in {4, 6, 9, 11} THEN 30 ELSE 31

\* the directive %m as strptime matches it: 1[0-2] | 0[1-9] | [1-9]
MonthToken(t) ==
    \/ Len(t) = 2 /\ CharAt(t, 1) = "1" /\ CharAt(t, 2) \in {"0", "1", "2"}
    \/ Len(t) = 2 /\ CharAt(t, 1) = "0" /\ IsDigit(CharAt(t, 2)) /\ CharAt(t, 2) # "0"
    \/ Len(t) = 1 /\ IsDigit(t) /\ t # "0"

\* how much of rest the directive %d takes: 3[01] | [12]\d | 0[1-9] | [1-9] | " [1-9]",
\* the first alternative that matches, 0 when none does
DayTaken(rest) ==
    LET a == CharAt(rest, 1)
        b == CharAt(rest, 2)
        nz(c) == IsDigit(c) /\ c # "0"
    IN  IF Len(rest) >= 2 /\ a = "3" /\ b \in {"0", "1"} THEN 2
        ELSE IF Len(rest) >= 2 /\ a \in {"1", "2"} /\ IsDigit(b) THEN 2
        ELSE IF Len(rest) >= 2 /\ a = "0" /\ nz(b) THEN 2
        ELSE IF Len(rest) >= 1 /\ nz(a) THEN 1
        ELSE IF Len(rest) >= 2 /\ a = " " /\ nz(b) THEN 2
        ELSE 0

\* int() of the text %d matched, which may start with a blank
DayValue(t) == IF CharAt(t, 1) = " " THEN StrInt(SubSeq(t, 2, Len(t))) ELSE StrInt(t)

\* the two ways strptime ends without a date: both raise ValueError
NoDate(why) == [status |-> "ValueError", why |-> why, date |-> <<>>]

\* datetime.strptime(s, "%Y-%m-%d") with a month of ml characters
StrptimeWith(s, ml) ==
    LET n == Len(s)
        rest == SubSeq(s, 7 + ml, n)
        taken == DayTaken(rest)
    IN  IF /\ n >= 6 + ml
           /\ AllDigits(SubSeq(s, 1, 4))
           /\ CharAt(s, 5) = "-"
           /\ MonthToken(SubSeq(s, 6, 5 + ml))
           /\ CharAt(s, 6 + ml) = "-"
           /\ taken > 0
        THEN IF taken < Len(rest) THEN NoDate("unconverted data remains")
             ELSE LET y == StrInt(SubSeq(s, 1, 4))
                      m == StrInt(SubSeq(s, 6, 5 + ml))
                      d == DayValue(rest)
                  IN  IF y >= 1 /\ d <= DaysInMonth(y, m)
                      THEN [status |-> "ok", why |-> "", date |-> <<y, m, d>>]
                      ELSE NoDate("out of range")
        ELSE NoDate("does not match format")

\* datetime.strptime(s, "%Y-%m-%d"): the regex tries the two-character month first
Strptime(s) ==
    IF StrptimeWith(s, 2).why # "does not match format" THEN StrptimeWith(s, 2)
    ELSE StrptimeWith(s, 1)

\* the instant at which the clock stands at tick 0
ClockBase == [year |-> 2025, month |-> 12, day |-> 31, hour |-> 23, minute |-> 59, second |-> 58]

\* the date k days after date
RECURSIVE AddDays(_, _)
AddDays(date, k) ==
    IF k = 0 THEN date
    ELSE IF date.day < DaysInMonth(date.year, date.month)
         THEN AddDays([date EXCEPT !.day = @ + 1], k - 1)
    ELSE IF date.month < 12
         THEN AddDays([date EXCEPT !.month = @ + 1, !.day = 1], k - 1)
    ELSE AddDays([year |-> date.year + 1, month |-> 1, day |-> 1], k - 1)

\* datetime.now().strftime("%Y%m%d%H%M%S") with the clock at tick t: whole seconds only
Strftime(t, ticksPerSecond) ==
    LET secs == ClockBase.hour * 3600 + ClockBase.minute * 60 + ClockBase.second
                + (t \div ticksPerSecond)
        date == AddDays([year |-> ClockBase.year, month |-> ClockBase.month,
                         day |-> ClockBase.day], secs \div 86400)
        sod == secs % 86400
    IN  ZeroPad(IntStr(date.year), 4) \o ZeroPad(IntStr(date.month), 2)
        \o ZeroPad(IntStr(date.day), 2) \o ZeroPad(IntStr(sod \div 3600), 2)
        \o ZeroPad(IntStr((sod % 3600) \div 60), 2) \o ZeroPad(IntStr(sod % 60), 2)

InvalidDateMsg == "Invalid date format. Please use YYYY-MM-DD."

available_times == <<"9:00 AM", "11:00 AM", "2:00 PM", "4:00 PM">>

InSeq(x, seq) == \E i \in 1..Len(seq) : seq[i] = x

\* the f-string of the confirmation (its leading check mark, U+2705, written [v])
Confirmation(appointment_id, customer_name, phone_type, issue, preferred_date, preferred_time, contact) ==
    "\n    [v] Appointment Booked Successfully!"
    \o "\n    Appointment ID: " \o appointment_id
    \o "\n    Customer: " \o customer_name
    \o "\n    Phone: " \o phone_type
    \o "\n    Issue: " \o issue
    \o "\n    Date: " \o preferred_date
    \o "\n    Time: " \o preferred_time
    \o "\n    Contact: " \o contact
    \o "\n\n    Please bring your phone and any accessories. Arrive 10 minutes early."
    \o "\n    "

\* a slip that leaves the time slot unchecked
book_appointment_any_time(customer_name, phone_type, issue, preferred_date, preferred_time, contact, stamp) ==
    IF Strptime(preferred_date).status = "ValueError"
    THEN [ret |-> InvalidDateMsg, id |-> None]
    ELSE LET appointment_id == "APT-" \o stamp
         IN  [ret |-> Confirmation(appointment_id, customer_name, phone_type, issue,
                                   preferred_date, preferred_time, contact),
              id |-> Some(appointment_id)]

\* a slip that prints the phone type where the issue belongs
book_appointment_wrong_field(customer_name, phone_type, issue, preferred_date, preferred_time, contact, stamp) ==
    IF Strptime(preferred_date).status = "ValueError"
    THEN [ret |-> InvalidDateMsg, id |-> None]
    ELSE IF ~InSeq(preferred_time, available_times)
    THEN [ret |-> "Available times: " \o JoinComma(available_times), id |-> None]
    ELSE LET appointment_id == "APT-" \o stamp
         IN  [ret |-> Confirmation(appointment_id, customer_name, phone_type, phone_type,
                                   preferred_date, preferred_time, contact),
              id |-> Some(appointment_id)]

\* book_appointment, with stamp the text strftime makes of datetime.now():
\* what it returns and the appointment id it synthesized, if any
book_appointment(customer_name, phone_type, issue, preferred_date, preferred_time, contact, stamp) ==
    IF Strptime(preferred_date).status = "ValueError"
    THEN [ret |-> InvalidDateMsg, id |-> None]
    ELSE IF ~InSeq(preferred_time, available_times)
    THEN [ret |-> "Available times: " \o JoinComma(available_times), id |-> None]
    ELSE LET appointment_id == "APT-" \o stamp
         IN  [ret |-> Confirmation(appointment_id, customer_name, phone_type, issue,
                                   preferred_date, preferred_time, contact),
              id |-> Some(appointment_id)]

(***************************************************************************)
(* The inputs the tools are called with                                    *)
(***************************************************************************)
Brands == {None, Some(""), Some("iphone"), Some("SAMSUNG"), Some("Galaxy"),
           Some("Nokia"), Some("s"), Some("N")}

Models == {None, Some(""), Some("iPhone 15"), Some("Samsung Galaxy S23"),
           Some("iphone 15"), Some("iPhone 15 Pro"), Some("iPhone")}

Features == {None, Some("camera")}

PhoneTypes == {"iPhone 14", "IPHONE", "Samsung S22", "my samsung, not an iphone",
               "Google Pixel 8", "Phone", ""}

Issues == {"screen", "Cracked SCREEN", "battery drains, screen flickers", "camera",
           "water_damage", "water damage", "charging_port", "Battery Replacement",
           "general repair", ""}

Urgencies == {None, Some("standard"), Some("urgent"), Some("URGENT"), Some("urgently")}

Tickets == {None, Some(""), Some("TICKET-001"), Some("TICKET-002"), Some("TICKET-003"),
            Some("TICKET-00"), Some("TICKET-0011"), Some("ticket-001"),
            Some(" TICKET-001"), Some("TICKET-001, TICKET-002")}

Dates == {"2025-03-01", "2025-02-30", "2025-02-28", "2024-02-29", "2025-02-29",
          "2025-3-1", "2025-3- 1", "2025-03-1", "2025-13-01", "2025-00-10",
          "2025-04-31", "2025-12-31", "0000-01-01", "25-03-01", "2025-03-011",
          "2025/03/01", "01-03-2025", "March 1", "2025-03-01 ", "2025-03", ""}

Times == {"9:00 AM", "11:00 AM", "2:00 PM", "4:00 PM", "3:00 PM", "9:00 am",
          "09:00 AM", "9:00", ""}

Customers == {<<"Ada Obi", "ada@example.com">>, <<"", "">>}

\* the clock counts ticks, TicksPerSecond of them to the second
TicksPerSecond == 2

MaxTicks == 5

(***************************************************************************)
(* One tool call: the arguments are drawn, then the tool is applied        *)
(***************************************************************************)
Pending(op, args) == [op |-> op, args |-> args, done |-> FALSE, ret |-> "", id |-> None]

PhoneInfoCalls ==
    {Pending("get_phone_info", [brand |-> b, model |-> m, feature |-> f]) :
        b \in Brands, m \in Models, f \in Features}

RepairInfoCalls ==
    {Pending("get_repair_info", [phone_type |-> p, issue |-> i, urgency |-> u]) :
        p \in PhoneTypes, i \in Issues, u \in Urgencies}

RepairStatusCalls ==
    {Pending("check_repair_status", [ticket_number |-> t, order_number |-> o, email |-> None]) :
        t \in Tickets, o \in {None, Some("ORD001")}}

BookingCalls ==
    {Pending("book_appointment",
             [customer_name |-> who[1], phone_type |-> "iPhone 14", issue |-> "Cracked screen",
              preferred_date |-> d, preferred_time |-> t, contact |-> who[2]]) :
        who \in Customers, d \in Dates, t \in Times}

NoCall == [op |-> "none", done |-> FALSE]

InitRest ==
    /\ messages = <<>> /\ current_step = "" /\ needs_human = FALSE
    /\ collected_info = <<>> /\ routed = None /\ pc = "start" /\ raised = "none"
    /\ appointments = <<>> /\ next_id = 1 /\ returned = <<>>
    /\ booked = <<>>
    /\ InitStores

InitTools ==
    /\ InitRest
    /\ now = 0
    /\ call \in PhoneInfoCalls \cup RepairInfoCalls \cup RepairStatusCalls

CallGetPhoneInfo ==
    /\ call.op = "get_phone_info" /\ ~call.done
    /\ call' = [call EXCEPT !.done = TRUE,
                            !.ret = get_phone_info(call.args.brand, call.args.model,
                                                   call.args.feature)]
    /\ UNCHANGED <<storeVars, sessionVars, apptVars, now, booked>>

CallGetRepairInfo ==
    /\ call.op = "get_repair_info" /\ ~call.done
    /\ call' = [call EXCEPT !.done = TRUE,
                            \* urgency: str = "standard" when the caller leaves it out
                            !.ret = get_repair_info(call.args.phone_type, call.args.issue,
                                        IF call.args.urgency = None THEN Some("standard")
                                        ELSE call.args.urgency)]
    /\ UNCHANGED <<storeVars, sessionVars, apptVars, now, booked>>

CallCheckRepairStatus ==
    /\ call.op = "check_repair_status" /\ ~call.done
    /\ call' = [call EXCEPT !.done = TRUE,
                            !.ret = check_repair_status(call.args.ticket_number,
                                        call.args.order_number, call.args.email)]
    /\ UNCHANGED <<storeVars, sessionVars, apptVars, now, booked>>

NextTools == CallGetPhoneInfo \/ CallGetRepairInfo \/ CallCheckRepairStatus

SpecTools == InitTools /\ [][NextTools]_vars

(***************************************************************************)
(* One direct booking, at whatever time the clock shows                    *)
(***************************************************************************)
InitBooking ==
    /\ InitRest
    /\ now \in 0..MaxTicks
    /\ call \in BookingCalls

CallBookAppointment ==
    /\ call.op = "book_appointment" /\ ~call.done
    /\ LET a == call.args
           r == book_appointment(a.customer_name, a.phone_type, a.issue, a.preferred_date,
                                 a.preferred_time, a.contact, Strftime(now, TicksPerSecond))
       IN  /\ call' = [call EXCEPT !.done = TRUE, !.ret = r.ret, !.id = r.id]
           /\ booked' = IF r.id = None THEN booked ELSE Append(booked, r.id[1])
    /\ UNCHANGED <<storeVars, sessionVars, apptVars, now>>

NextBooking == CallBookAppointment

SpecBooking == InitBooking /\ [][NextBooking]_vars

(***************************************************************************)
(* Direct bookings one after another while the clock runs                  *)
(***************************************************************************)
MaxDirect == 3

ClockCalls ==
    {Pending("book_appointment",
             [customer_name |-> "Ada Obi", phone_type |-> "iPhone 14",
              issue |-> "Cracked screen", preferred_date |-> d, preferred_time |-> t,
              contact |-> "ada@example.com"]) :
        d \in {"2025-03-01", "2025-02-30"}, t \in {"9:00 AM", "4:00 PM", "3:00 PM"}}

InitClock ==
    /\ InitRest
    /\ now = 0
    /\ call = NoCall

\* the clock advances, by any number of ticks
Tick ==
    /\ \E t \in (now + 1)..MaxTicks : now' = t
    /\ UNCHANGED <<storeVars, sessionVars, apptVars, booked, call>>

\* book_appointment reads datetime.now() once; the clock has moved since the call before
BookAtClock ==
    \E c \in ClockCalls :
        LET a == c.args
            r == book_appointment(a.customer_name, a.phone_type, a.issue, a.preferred_date,
                                  a.preferred_time, a.contact, Strftime(now, TicksPerSecond))
        IN  /\ Len(booked) < MaxDirect
            /\ call.op = "book_appointment" => call.at < now
            /\ call' = [op |-> c.op, args |-> a, done |-> TRUE, ret |-> r.ret, id |-> r.id,
                        at |-> now]
            /\ booked' = IF r.id = None THEN booked ELSE Append(booked, r.id[1])
            /\ UNCHANGED <<storeVars, sessionVars, apptVars, now>>

NextClock == Tick \/ BookAtClock

SpecClock == InitClock /\ [][NextClock]_vars

\* a < b, for two strings of digits of one length
RECURSIVE DigitsLess(_, _)
DigitsLess(a, b) ==
    IF Len(a) = 0 THEN FALSE
    ELSE IF CharAt(a, 1) = CharAt(b, 1)
         THEN DigitsLess(SubSeq(a, 2, Len(a)), SubSeq(b, 2, Len(b)))
    ELSE DigitVal(CharAt(a, 1)) < DigitVal(CharAt(b, 1))

\* the 14 digits of an appointment id
Stamp(appointment_id) == SubSeq(appointment_id, 5, Len(appointment_id))

\* C14: of the ids that successful book_appointment calls have synthesized, the clock
\* advancing between the calls, each differs from and is greater than every id
\* synthesized before it.
C14_IdsIncrease ==
    \A i, j \in 1..Len(booked) :
        i < j => /\ booked[i] # booked[j]
                 /\ DigitsLess(Stamp(booked[i]), Stamp(booked[j]))

(***************************************************************************)
(* Properties of the tools                                                 *)
(***************************************************************************)
Done(op) == call.op = op /\ call.done

\* s is a calendar date written YYYY-MM-DD: ten characters, zero-padded
IsCalendarDate(s) ==
    /\ Len(s) = 10
    /\ CharAt(s, 5) = "-" /\ CharAt(s, 8) = "-"
    /\ AllDigits(SubSeq(s, 1, 4)) /\ AllDigits(SubSeq(s, 6, 7)) /\ AllDigits(SubSeq(s, 9, 10))
    /\ LET y == StrInt(SubSeq(s, 1, 4))
           m == StrInt(SubSeq(s, 6, 7))
           d == StrInt(SubSeq(s, 9, 10))
       IN  y >= 1 /\ m \in 1..12 /\ d >= 1 /\ d <= DaysInMonth(y, m)

FourSlots == {"9:00 AM", "11:00 AM", "2:00 PM", "4:00 PM"}

\* C5: book_appointment answers every preferred_date that is not a calendar date
\* written YYYY-MM-DD with the invalid-date message, whatever the time slot, and
\* synthesizes no appointment id.
C5_RejectsEveryNonDate ==
    (Done("book_appointment") /\ ~IsCalendarDate(call.args.preferred_date)) =>
        /\ call.ret = "Invalid date format. Please use YYYY-MM-DD."
        /\ call.id = None
        /\ booked = <<>>

\* C6: with a calendar date and a time that is none of the four slots,
\* book_appointment returns the list of exactly the four slots and books nothing.
C6_UnavailableTime ==
    (/\ Done("book_appointment")
     /\ IsCalendarDate(call.args.preferred_date)
     /\ call.args.preferred_time \notin FourSlots) =>
        /\ call.ret = "Available times: 9:00 AM, 11:00 AM, 2:00 PM, 4:00 PM"
        /\ call.id = None
        /\ booked = <<>>

C6_Witness ==
    /\ Done("book_appointment")
    /\ call.args.preferred_date = "2025-03-01"
    /\ call.args.preferred_time = "3:00 PM"
    /\ Contains("2:00 PM", call.ret)

\* C7: with a calendar date and one of the four slots, book_appointment returns a
\* confirmation that carries the appointment id synthesized in this call and each
\* of the six supplied fields as supplied.
C7_Confirmation ==
    (/\ Done("book_appointment")
     /\ IsCalendarDate(call.args.preferred_date)
     /\ call.args.preferred_time \in FourSlots) =>
        /\ call.id # None
        /\ booked = <<call.id[1]>>
        /\ Len(call.id[1]) = 18
        /\ SubSeq(call.id[1], 1, 4) = "APT-"
        /\ AllDigits(SubSeq(call.id[1], 5, 18))
        /\ Contains("Appointment Booked Successfully!", call.ret)
        /\ Contains("\n    Appointment ID: " \o call.id[1] \o "\n", call.ret)
        /\ Contains("\n    Customer: " \o call.args.customer_name \o "\n", call.ret)
        /\ Contains("\n    Phone: " \o call.args.phone_type \o "\n", call.ret)
        /\ Contains("\n    Issue: " \o call.args.issue \o "\n", call.ret)
        /\ Contains("\n    Date: " \o call.args.preferred_date \o "\n", call.ret)
        /\ Contains("\n    Time: " \o call.args.preferred_time \o "\n", call.ret)
        /\ Contains("\n    Contact: " \o call.args.contact \o "\n", call.ret)

C7_Witness ==
    /\ Done("book_appointment")
    /\ call.args.preferred_date = "2025-03-01"
    /\ call.args.preferred_time = "9:00 AM"
    /\ call.args.customer_name = "Ada Obi"
    /\ now = MaxTicks
    /\ call.id # None

\* the issue kinds priced in this repository (support_tools.py), which the claim counts
FiveIssueKeywords == <<"screen", "battery", "camera", "water_damage", "charging_port">>

\* the four get_repair_info prices
FourIssueKeywords == <<"screen", "battery", "camera", "water_damage">>

\* the first keyword of keys, in their order, that issue contains; 0 when none
FirstIndexIn(keys, issue) ==
    IF \E i \in 1..Len(keys) : Contains(keys[i], issue)
    THEN CHOOSE i \in 1..Len(keys) :
            /\ Contains(keys[i], issue)
            /\ \A j \in 1..(i - 1) : ~Contains(keys[j], issue)
    ELSE 0

BrandBucket(phone_type) ==
    CASE Contains("iphone", Lower(phone_type)) -> "iPhone"
      [] ~Contains("iphone", Lower(phone_type)) /\ Contains("samsung", Lower(phone_type))
            -> "Samsung"
      [] OTHER -> "Other"

\* the price sheet as the specification of get_repair_info lists it
PriceSheet(keyword, bucket) ==
    CASE keyword = "screen" /\ bucket = "iPhone" -> "$199"
      [] keyword = "screen" /\ bucket = "Samsung" -> "$179"
      [] keyword = "screen" /\ bucket = "Other" -> "$159"
      [] keyword = "battery" /\ bucket = "iPhone" -> "$89"
      [] keyword = "battery" /\ bucket = "Samsung" -> "$79"
      [] keyword = "battery" /\ bucket = "Other" -> "$69"
      [] keyword = "camera" /\ bucket = "iPhone" -> "$149"
      [] keyword = "camera" /\ bucket = "Samsung" -> "$129"
      [] keyword = "camera" /\ bucket = "Other" -> "$119"
      [] keyword = "water_damage" /\ bucket = "iPhone" -> "$299"
      [] keyword = "water_damage" /\ bucket = "Samsung" -> "$279"
      [] keyword = "water_damage" /\ bucket = "Other" -> "$259"
      [] OTHER -> "no price"

\* the estimate get_repair_info owes for an issue that contains a keyword of keys
EstimateFor(keys) ==
    LET a == call.args
        k == keys[FirstIndexIn(keys, Lower(a.issue))]
    IN  /\ Contains("Repair Estimate:", call.ret)
        /\ Contains("\n        Estimated Cost: "
                    \o PriceSheet(k, BrandBucket(a.phone_type)) \o "\n", call.ret)
        /\ (a.urgency = Some("urgent")
              <=> Contains("\n        Turnaround Time: 1-2 days\n", call.ret))
        /\ (a.urgency # Some("urgent")
              <=> Contains("\n        Turnaround Time: 3-5 business days\n", call.ret))

\* C8 as stated: an issue that contains one of the five known issue keywords gets an
\* estimate with the price of the first matching keyword for the brand bucket, and
\* a turnaround of 1-2 days exactly when urgency is "urgent".
C8_FiveKeywords ==
    (Done("get_repair_info") /\ FirstIndexIn(FiveIssueKeywords, Lower(call.args.issue)) > 0)
        => EstimateFor(FiveIssueKeywords)

\* C8, amended: the same for the four keywords get_repair_info prices (screen,
\* battery, camera, water_damage, the first in this order that the lower-cased issue
\* contains); any other issue gets the visit-our-store answer and no price.
C8_FourKeywords ==
    Done("get_repair_info") =>
        IF FirstIndexIn(FourIssueKeywords, Lower(call.args.issue)) > 0
        THEN EstimateFor(FourIssueKeywords)
        ELSE /\ call.ret = "We can repair " \o call.args.phone_type \o " with "
                           \o call.args.issue \o ". Please visit our store for exact pricing."

C8_Witness ==
    /\ Done("get_repair_info")
    /\ call.args.issue = "battery drains, screen flickers"
    /\ call.args.phone_type = "my samsung, not an iphone"
    /\ call.args.urgency = Some("urgent")
    /\ Contains("Estimated Cost: $199", call.ret)

\* C9: check_repair_status answers an id that is no key of the ticket store (a
\* missing one too) with the fixed valid-ticket-number message; for a stored id it
\* reports completion date and pickup when completed, status and estimated
\* completion otherwise; only an id equal to a key counts as stored.
C9_RepairStatus ==
    Done("check_repair_status") =>
        LET t == call.args.ticket_number
        IN  IF t = None \/ t[1] \notin {"TICKET-001", "TICKET-002"}
            THEN call.ret = "Please provide a valid ticket number. You can find it on your repair receipt."
            ELSE IF REPAIR_JOBS[t[1]].status = "Completed"
            THEN /\ Contains(t[1] \o " was completed on "
                             \o REPAIR_JOBS[t[1]].completed_date[1] \o ".", call.ret)
                 /\ Contains("is ready for pickup!", call.ret)
            ELSE /\ Contains("Repair " \o t[1] \o " for ", call.ret)
                 /\ Contains(" is " \o REPAIR_JOBS[t[1]].status \o ". Estimated completion: "
                             \o REPAIR_JOBS[t[1]].estimated_completion[1] \o ".", call.ret)

C9_Witness ==
    /\ Done("check_repair_status")
    /\ call.args.ticket_number = Some("TICKET-001, TICKET-002")
    /\ Contains("valid ticket number", call.ret)

\* the values a catalogue entry shows on its sheet
SheetValues(m) ==
    LET phone == PHONE_INVENTORY[m]
    IN  {"Price: " \o phone.price, "Available Storage: " \o JoinComma(phone.storage),
         "Colors: " \o JoinComma(phone.colors), "- Display: " \o phone.specs.display,
         "- Camera: " \o phone.specs.camera, "- Battery: " \o phone.specs.battery}

CatalogueKeys == {"iPhone 15", "Samsung Galaxy S23"}

\* C10: get_phone_info answers with the sheet of the model when model equals a
\* catalogue key, whatever brand is; otherwise, with a brand given, with exactly the
\* catalogue models whose name contains the brand case-insensitively, or the
\* not-found message; otherwise with all catalogue model names.
C10_PhoneInfoOrder ==
    Done("get_phone_info") =>
        LET model == call.args.model
            brand == call.args.brand
        IN  IF model # None /\ model[1] \in CatalogueKeys
            THEN /\ Contains(model[1] \o " Information:", call.ret)
                 /\ \A v \in SheetValues(model[1]) : Contains(v \o "\n", call.ret)
                 /\ \A k \in CatalogueKeys \ {model[1]} :
                        \A v \in SheetValues(k) \ SheetValues(model[1]) :
                            ~Contains(v \o "\n", call.ret)
            ELSE IF brand # None /\ brand[1] # ""
            THEN LET ms == {k \in CatalogueKeys : Contains(Lower(brand[1]), Lower(k))}
                 IN  IF ms # {}
                     THEN /\ SubSeq(call.ret, 1, 14) = "We have these "
                          /\ \A k \in CatalogueKeys : (k \in ms <=> Contains(k, call.ret))
                     ELSE call.ret = "Sorry, we don't have " \o brand[1]
                                     \o " models in stock currently."
            ELSE call.ret = "Available phones: iPhone 15, Samsung Galaxy S23"

C10_Witness ==
    /\ Done("get_phone_info")
    /\ call.args.model = Some("Samsung Galaxy S23")
    /\ call.args.brand = Some("iphone")
    /\ Contains("3900mAh", call.ret)

(***************************************************************************)
(* support_tools.py: AppointmentSystem                                     *)
(***************************************************************************)
MaxBookings == 3

\* the appointment dict book_appointment builds
NewAppointment(appointment_id, customer_name, service_type, preferred_date, phone_model) ==
    [id |-> appointment_id,
     customer_name |-> customer_name,
     service_type |-> service_type,
     phone_model |-> phone_model,
     date |-> preferred_date,
     status |-> "Confirmed",
     estimated_duration |-> "1 hour",
     confirmation_code |-> "REP" \o ZeroPad(IntStr(appointment_id), 4)]

\* self.appointments[appointment_id] = appointment
Store(table, appointment_id, appointment) ==
    [i \in DOMAIN table \cup {appointment_id} |->
        IF i = appointment_id THEN appointment ELSE table[i]]

\* a slip that leaves out self.next_id += 1
AppointmentSystem_book_no_increment(nid, table, customer_name, service_type, preferred_date, phone_model) ==
    LET appointment == NewAppointment(nid, customer_name, service_type,
                                      preferred_date, phone_model)
    IN  [next_id |-> nid,
         appointments |-> Store(table, nid, appointment),
         result |-> [success |-> TRUE, appointment_id |-> nid,
                     confirmation_code |-> appointment.confirmation_code,
                     details |-> appointment]]

\* AppointmentSystem.book_appointment on the fields nid and table: the fields after
\* the call and what it returns
AppointmentSystem_book(nid, table, customer_name, service_type, preferred_date, phone_model) ==
    LET appointment_id == nid
        appointment == NewAppointment(appointment_id, customer_name, service_type,
                                      preferred_date, phone_model)
    IN  [next_id |-> nid + 1,
         appointments |-> Store(table, appointment_id, appointment),
         result |-> [success |-> TRUE, appointment_id |-> appointment_id,
                     confirmation_code |-> appointment.confirmation_code,
                     details |-> appointment]]

\* AppointmentSystem.check_appointment
AppointmentSystem_check(table, appointment_id) ==
    IF appointment_id \notin DOMAIN table
    THEN [error |-> "Appointment ID " \o IntStr(appointment_id) \o " not found"]
    ELSE table[appointment_id]

BookingRequests ==
    {<<"Ada Obi", "screen_replacement", "2025-03-01", "iPhone 15 Pro">>,
     <<"Ada Obi", "screen_replacement", "2025-03-01", "">>,
     <<"Ben Roy", "battery_replacement", "tomorrow", "Google Pixel 8">>,
     <<"", "", "", "">>}

InitAppointments ==
    /\ InitRest
    /\ now = 0
    /\ call = NoCall

BookAppointment ==
    \E q \in BookingRequests :
        LET r == AppointmentSystem_book(next_id, appointments, q[1], q[2], q[3], q[4])
        IN  /\ Len(returned) < MaxBookings
            /\ next_id' = r.next_id
            /\ appointments' = r.appointments
            /\ returned' = Append(returned, r.result)
            /\ call' = [op |-> "AppointmentSystem.book_appointment", done |-> TRUE]
            /\ UNCHANGED <<storeVars, sessionVars, now, booked>>

CheckAppointment ==
    \E appointment_id \in 0..(MaxBookings + 1) :
        /\ call' = [op |-> "AppointmentSystem.check_appointment", done |-> TRUE,
                    args |-> appointment_id,
                    ret |-> AppointmentSystem_check(appointments, appointment_id)]
        /\ UNCHANGED <<storeVars, sessionVars, apptVars, now, booked>>

NextAppointments == BookAppointment \/ CheckAppointment

SpecAppointments == InitAppointments /\ [][NextAppointments]_vars

ReturnedIds == {returned[k].appointment_id : k \in 1..Len(returned)}

\* C2: after any sequence of book_appointment and check_appointment calls each id
\* returned is greater than every id returned before it, no two stored appointments
\* share an id or a confirmation code, and every appointment is still stored, under
\* its id, as it was returned when booked.
C2_AppointmentIds ==
    /\ \A i, j \in 1..Len(returned) :
          i < j => returned[i].appointment_id < returned[j].appointment_id
    /\ DOMAIN appointments = ReturnedIds
    /\ \A a \in DOMAIN appointments : appointments[a].id = a
    /\ \A a, b \in DOMAIN appointments :
          a # b => appointments[a].confirmation_code # appointments[b].confirmation_code
    /\ \A k \in 1..Len(returned) :
          /\ returned[k].appointment_id \in DOMAIN appointments
          /\ appointments[returned[k].appointment_id] = returned[k].details
          /\ returned[k].confirmation_code = returned[k].details.confirmation_code
    /\ \A a \in DOMAIN appointments : a < next_id

C2_Witness ==
    /\ Len(returned) = 3
    /\ returned[3].appointment_id = 3
    /\ returned[3].confirmation_code = "REP0003"
    /\ Done("AppointmentSystem.check_appointment")
    /\ call.args = 1
    /\ call.ret = returned[1].details

(***************************************************************************)
(* support_tools.py: the lookups of the stores                             *)
(***************************************************************************)
UpperChar(c) ==
    CASE c = "a" -> "A" [] c = "b" -> "B" [] c = "c" -> "C" [] c = "d" -> "D"
      [] c = "e" -> "E" [] c = "f" -> "F" [] c = "g" -> "G" [] c = "h" -> "H"
      [] c = "i" -> "I" [] c = "j" -> "J" [] c = "k" -> "K" [] c = "l" -> "L"
      [] c = "m" -> "M" [] c = "n" -> "N" [] c = "o" -> "O" [] c = "p" -> "P"
      [] c = "q" -> "Q" [] c = "r" -> "R" [] c = "s" -> "S" [] c = "t" -> "T"
      [] c = "u" -> "U" [] c = "v" -> "V" [] c = "w" -> "W" [] c = "x" -> "X"
      [] c = "y" -> "Y" [] c = "z" -> "Z" [] OTHER -> c

IsLetter(c) == LowerChar(c) # c \/ UpperChar(c) # c

\* str.capitalize(): the first character upper-cased, the rest lower-cased
Capitalize(s) ==
    IF Len(s) = 0 THEN "" ELSE UpperChar(CharAt(s, 1)) \o Lower(SubSeq(s, 2, Len(s)))

\* str.replace("_", " ")
RECURSIVE ReplaceUnderscores(_)
ReplaceUnderscores(s) ==
    IF Len(s) = 0 THEN ""
    ELSE (IF CharAt(s, 1) = "_" THEN " " ELSE CharAt(s, 1))
         \o ReplaceUnderscores(SubSeq(s, 2, Len(s)))

\* str.title() from position i on: a letter after a letter is lower-cased, any other
\* letter upper-cased
RECURSIVE TitleFrom(_, _)
TitleFrom(s, i) ==
    IF i > Len(s) THEN ""
    ELSE (IF i > 1 /\ IsLetter(CharAt(s, i - 1)) THEN LowerChar(CharAt(s, i))
          ELSE UpperChar(CharAt(s, i)))
         \o TitleFrom(s, i + 1)

Title(s) == TitleFrom(s, 1)

Abs(n) == IF n < 0 THEN -n ELSE n

\* PhoneInventory.check_availability
check_availability(ph, model, color) ==
    IF model \notin DOMAIN ph
    THEN [available |-> FALSE, message |-> "Model '" \o model \o "' not found"]
    ELSE LET phone == ph[model]
         IN  IF Truthy(color) /\ ~InSeq(color[1], phone.colors)
             THEN [available |-> FALSE,
                   message |-> "Color '" \o color[1] \o "' not available for " \o model]
             ELSE [available |-> phone.stock > 0, stock |-> phone.stock,
                   colors |-> phone.colors, price |-> phone.price]

\* PhoneInventory.get_specs
get_specs(ph, model) ==
    IF model \notin DOMAIN ph
    THEN [error |-> "Model '" \o model \o "' not found"]
    ELSE ph[model].specs

\* PhoneInventory.compare_models
compare_models(ph, model1, model2) ==
    IF model1 \notin DOMAIN ph \/ model2 \notin DOMAIN ph
    THEN [error |-> "One or both models not found"]
    ELSE [model1 |-> ph[model1], model2 |-> ph[model2],
          price_difference |-> Abs(ph[model1].price - ph[model2].price)]

\* RepairServices.estimate_repair_cost
estimate_repair_cost(prices, phone_brand, issue) ==
    IF issue \notin DOMAIN prices
    THEN [error |-> "Unknown issue '" \o issue \o "'. Available issues: "
                    \o JoinComma(RepairIssueKeys)]
    ELSE LET price_info == prices[issue]
             brand == IF Capitalize(phone_brand) \in {"Iphone", "Samsung", "Google"}
                      THEN Capitalize(phone_brand) ELSE "Other"
         IN  [issue |-> Title(ReplaceUnderscores(issue)),
              brand |-> brand,
              \* price_info.get(brand, price_info["Other"])
              estimated_cost |-> IF brand \in DOMAIN price_info THEN price_info[brand]
                                 ELSE price_info["Other"],
              estimated_time |-> price_info["time"],
              currency |-> "USD"]

\* a slip that indexes the table without testing for the key: Python raises KeyError
track_order_unchecked(ord, order_id) ==
    IF order_id \notin DOMAIN ord THEN [raised |-> "KeyError"] ELSE ord[order_id]

\* OrderTracking.track_order
track_order(ord, order_id) ==
    IF order_id \notin DOMAIN ord
    THEN [error |-> "Order ID " \o order_id \o " not found"]
    ELSE ord[order_id]

\* OrderTracking.check_repair_status
OrderTracking_check_repair_status(ord, repair_id) == track_order(ord, repair_id)

\* PolicyFAQ.get_answer
get_answer(topics, topic) ==
    IF topic \notin DOMAIN topics
    THEN [error |-> "Topic '" \o topic \o "' not found. Available topics: "
                    \o JoinComma(FaqTopics)]
    ELSE topics[topic]

(***************************************************************************)
(* One lookup of a store, made before, between or after bookings           *)
(***************************************************************************)
StoreModels ==
    {"iPhone 15 Pro", "Samsung Galaxy S24", "Google Pixel 8", "iphone 15 pro",
     "iPhone 15", ""}

StoreColors == {None, Some(""), Some("Obsidian"), Some("Purple")}

StoreBrands ==
    {"iPhone", "iphone", "IPHONE", "Samsung", "samsung", "SAMSUNG", "Google", "gOOGLE",
     "Nokia", "Other", ""}

StoreIssues ==
    {"screen_replacement", "battery_replacement", "camera_repair", "water_damage",
     "charging_port", "screen", "Screen_Replacement", ""}

OrderIds == {"ORD001", "ORD002", "REP001", "ORD003", "ord001", "TICKET-001", ""}

Topics == {"return_policy", "shipping", "warranty", "data_backup", "payment_methods",
           "returns", "Warranty", ""}

StoreCalls ==
    {Pending("PhoneInventory.check_availability", [model |-> m, color |-> c]) :
        m \in StoreModels, c \in StoreColors}
    \cup {Pending("PhoneInventory.get_specs", [model |-> m]) : m \in StoreModels}
    \cup {Pending("PhoneInventory.compare_models", [model1 |-> m1, model2 |-> m2]) :
              m1 \in StoreModels, m2 \in StoreModels}
    \cup {Pending("RepairServices.estimate_repair_cost", [phone_brand |-> b, issue |-> i]) :
              b \in StoreBrands, i \in StoreIssues}
    \cup {Pending("AppointmentSystem.check_appointment", [appointment_id |-> a]) :
              a \in 0..(MaxBookings + 1)}
    \cup {Pending("OrderTracking.track_order", [order_id |-> o]) : o \in OrderIds}
    \cup {Pending("OrderTracking.check_repair_status", [repair_id |-> o]) : o \in OrderIds}
    \cup {Pending("PolicyFAQ.get_answer", [topic |-> t]) : t \in Topics}

InitStoreCalls ==
    /\ InitRest
    /\ now = 0
    /\ call \in StoreCalls

\* the lookup returns ret; none of the methods assigns a field
Lookup(op, ret) ==
    /\ call.op = op /\ ~call.done
    /\ call' = [call EXCEPT !.done = TRUE, !.ret = ret]
    /\ UNCHANGED <<storeVars, sessionVars, apptVars, now, booked>>

CallCheckAvailability ==
    Lookup("PhoneInventory.check_availability",
           check_availability(phones, call.args.model, call.args.color))

CallGetSpecs ==
    Lookup("PhoneInventory.get_specs", get_specs(phones, call.args.model))

CallCompareModels ==
    Lookup("PhoneInventory.compare_models",
           compare_models(phones, call.args.model1, call.args.model2))

CallEstimateRepairCost ==
    Lookup("RepairServices.estimate_repair_cost",
           estimate_repair_cost(rs_repair_prices, call.args.phone_brand, call.args.issue))

CallCheckAppointment ==
    Lookup("AppointmentSystem.check_appointment",
           AppointmentSystem_check(appointments, call.args.appointment_id))

CallTrackOrder ==
    Lookup("OrderTracking.track_order", track_order(orders, call.args.order_id))

CallOrderCheckRepairStatus ==
    Lookup("OrderTracking.check_repair_status",
           OrderTracking_check_repair_status(orders, call.args.repair_id))

CallGetAnswer ==
    Lookup("PolicyFAQ.get_answer", get_answer(faq, call.args.topic))

\* AppointmentSystem.book_appointment, called by someone else than the lookup's caller
BookMeanwhile ==
    \E q \in BookingRequests :
        LET r == AppointmentSystem_book(next_id, appointments, q[1], q[2], q[3], q[4])
        IN  /\ Len(returned) < MaxBookings
            /\ next_id' = r.next_id
            /\ appointments' = r.appointments
            /\ returned' = Append(returned, r.result)
            /\ UNCHANGED <<storeVars, sessionVars, now, booked, call>>

NextStores ==
    \/ CallCheckAvailability
    \/ CallGetSpecs
    \/ CallCompareModels
    \/ CallEstimateRepairCost
    \/ CallCheckAppointment
    \/ CallTrackOrder
    \/ CallOrderCheckRepairStatus
    \/ CallGetAnswer
    \/ BookMeanwhile

SpecStores == InitStoreCalls /\ [][NextStores]_vars

(***************************************************************************)
(* Properties of the stores                                                *)
(***************************************************************************)
\* the key a lookup asks for is not in the store it asks
KeyAbsent ==
    CASE call.op = "PhoneInventory.check_availability" ->
           call.args.model \notin {"iPhone 15 Pro", "Samsung Galaxy S24", "Google Pixel 8"}
      [] call.op = "PhoneInventory.get_specs" ->
           call.args.model \notin {"iPhone 15 Pro", "Samsung Galaxy S24", "Google Pixel 8"}
      [] call.op = "PhoneInventory.compare_models" ->
           \/ call.args.model1 \notin {"iPhone 15 Pro", "Samsung Galaxy S24", "Google Pixel 8"}
           \/ call.args.model2 \notin {"iPhone 15 Pro", "Samsung Galaxy S24", "Google Pixel 8"}
      [] call.op = "RepairServices.estimate_repair_cost" ->
           call.args.issue \notin {"screen_replacement", "battery_replacement",
                                   "camera_repair", "water_damage", "charging_port"}
      [] call.op = "AppointmentSystem.check_appointment" ->
           call.args.appointment_id \notin ReturnedIds
      [] call.op \in {"OrderTracking.track_order", "OrderTracking.check_repair_status"} ->
           (IF call.op = "OrderTracking.track_order" THEN call.args.order_id
            ELSE call.args.repair_id) \notin {"ORD001", "ORD002", "REP001"}
      [] call.op = "PolicyFAQ.get_answer" ->
           call.args.topic \notin {"return_policy", "shipping", "warranty", "data_backup",
                                   "payment_methods"}
      [] OTHER -> FALSE

\* the text of a value that reports a failed lookup
ErrorText(ret) ==
    IF DOMAIN ret = {"error"} THEN Some(ret.error)
    ELSE IF DOMAIN ret = {"available", "message"} /\ ret.available = FALSE
         THEN Some(ret.message)
    ELSE None

\* the text says what was asked for and that it is not there
Descriptive(text) ==
    CASE call.op \in {"PhoneInventory.check_availability", "PhoneInventory.get_specs"} ->
           text = "Model '" \o call.args.model \o "' not found"
      [] call.op = "PhoneInventory.compare_models" ->
           Contains("models not found", text)
      [] call.op = "RepairServices.estimate_repair_cost" ->
           /\ Contains("Unknown issue '" \o call.args.issue \o "'", text)
           /\ \A i \in DOMAIN rs_repair_prices : Contains(i, text)
      [] call.op = "AppointmentSystem.check_appointment" ->
           text = "Appointment ID " \o IntStr(call.args.appointment_id) \o " not found"
      [] call.op = "OrderTracking.track_order" ->
           text = "Order ID " \o call.args.order_id \o " not found"
      [] call.op = "OrderTracking.check_repair_status" ->
           text = "Order ID " \o call.args.repair_id \o " not found"
      [] call.op = "PolicyFAQ.get_answer" ->
           /\ Contains("Topic '" \o call.args.topic \o "' not found", text)
           /\ \A t \in DOMAIN faq : Contains(t, text)

\* C13: a lookup of a key that its store does not hold returns a value that reports
\* the failure in words (it never raises), and a lookup changes neither the store it
\* reads nor any other: phones, repair prices, orders, FAQ, the appointment table and
\* next_id are after the call what they were before it.
C13_NotFoundLookups ==
    /\ []((call.done /\ KeyAbsent) =>
            /\ ErrorText(call.ret) # None
            /\ Descriptive(ErrorText(call.ret)[1]))
    /\ [](/\ phones = PhoneInventory_phones
          /\ rs_repair_prices = RepairServices_repair_prices
          /\ orders = OrderTracking_orders
          /\ faq = PolicyFAQ_faq)
    /\ [][(call'.done /\ ~call.done) =>
            UNCHANGED <<phones, rs_repair_prices, orders, faq, appointments, next_id,
                        returned>>]_vars

\* two appointments are booked and the third is asked for
C13_Witness ==
    /\ Done("AppointmentSystem.check_appointment")
    /\ Len(returned) = 2
    /\ call.args.appointment_id = 3
    /\ call.ret = [error |-> "Appointment ID 3 not found"]
    /\ DOMAIN appointments = {1, 2}
    /\ next_id = 3

\* the key of a price entry that a brand names, in whatever letter case
NamedBrand(phone_brand) ==
    CASE Lower(phone_brand) = "iphone" -> "iPhone"
      [] Lower(phone_brand) = "samsung" -> "Samsung"
      [] Lower(phone_brand) = "google" -> "Google"
      [] OTHER -> "Other"

\* C15: for an issue of the price table, estimate_repair_cost returns the price the
\* issue's entry lists under the brand named (iPhone, Samsung or Google in any letter
\* case), the entry's "Other" price only for any other brand, and reports as brand
\* the key of the price it returned.
C15_BrandPrice ==
    (Done("RepairServices.estimate_repair_cost")
     /\ call.args.issue \in DOMAIN RepairServices_repair_prices) =>
        LET entry == RepairServices_repair_prices[call.args.issue]
        IN  /\ DOMAIN call.ret
                  = {"issue", "brand", "estimated_cost", "estimated_time", "currency"}
            /\ call.ret.estimated_cost = entry[NamedBrand(call.args.phone_brand)]
            /\ call.ret.brand \in {"iPhone", "Samsung", "Google", "Other"}
            /\ entry[call.ret.brand] = call.ret.estimated_cost

(***************************************************************************)
(* phone_support_bot.py: the router and the graph nodes                    *)
(***************************************************************************)
HumanMessage(content) == [role |-> "human", content |-> content]

AIMessage(content) == [role |-> "ai", content |-> content]

\* any(word in query for word in words)
AnyWordIn(words, query) == \E i \in 1..Len(words) : Contains(words[i], query)

\* a slip that tests the status keywords before the repair keywords
router_status_first(msgs) ==
    LET last_message == msgs[Len(msgs)]
        query == Lower(last_message.content)
    IN  IF last_message.role = "human"
        THEN IF AnyWordIn(<<"phone", "model", "spec", "price", "buy">>, query)
                 THEN "product_info"
             ELSE IF AnyWordIn(<<"status", "track", "check", "ticket">>, query)
                 THEN "status_check"
             ELSE IF AnyWordIn(<<"repair", "fix", "broken", "damage">>, query)
                 THEN "repair_info"
             ELSE IF AnyWordIn(<<"appointment", "schedule", "book", "meet">>, query)
                 THEN "appointment"
             ELSE IF AnyWordIn(<<"help", "trouble", "issue", "problem">>, query)
                 THEN "troubleshooting"
             ELSE IF AnyWordIn(<<"warranty", "guarantee", "cover">>, query)
                 THEN "warranty_check"
             ELSE IF AnyWordIn(<<"contact", "store", "location", "hours">>, query)
                 THEN "contact_info"
             ELSE IF AnyWordIn(<<"human", "agent", "speak to", "representative">>, query)
                 THEN "human_escalation"
             ELSE "general_chat"
        ELSE "general_chat"

\* router(state), which reads state["messages"] only
router(msgs) ==
    LET last_message == msgs[Len(msgs)]
        query == Lower(last_message.content)
    IN  IF last_message.role = "human"
        THEN IF AnyWordIn(<<"phone", "model", "spec", "price", "buy">>, query)
                 THEN "product_info"
             ELSE IF AnyWordIn(<<"repair", "fix", "broken", "damage">>, query)
                 THEN "repair_info"
             ELSE IF AnyWordIn(<<"status", "track", "check", "ticket">>, query)
                 THEN "status_check"
             ELSE IF AnyWordIn(<<"appointment", "schedule", "book", "meet">>, query)
                 THEN "appointment"
             ELSE IF AnyWordIn(<<"help", "trouble", "issue", "problem">>, query)
                 THEN "troubleshooting"
             ELSE IF AnyWordIn(<<"warranty", "guarantee", "cover">>, query)
                 THEN "warranty_check"
             ELSE IF AnyWordIn(<<"contact", "store", "location", "hours">>, query)
                 THEN "contact_info"
             ELSE IF AnyWordIn(<<"human", "agent", "speak to", "representative">>, query)
                 THEN "human_escalation"
             ELSE "general_chat"
        ELSE "general_chat"

\* the AgentState a node is handed
State == [messages |-> messages, current_step |-> current_step,
          needs_human |-> needs_human, collected_info |-> collected_info]

Returns(st) == [state |-> st, raised |-> "none"]

Raises(st, exception) == [state |-> st, raised |-> exception]

\* a slip that rebuilds the history from the reply instead of appending to it
Respond_replacing(st, response, step) ==
    [st EXCEPT !.messages = <<AIMessage(response)>>, !.current_step = step]

\* state["messages"].append(AIMessage(content=response)); state["current_step"] = step
Respond(st, response, step) ==
    [st EXCEPT !.messages = Append(@, AIMessage(response)), !.current_step = step]

LastContent(st) == st.messages[Len(st.messages)].content

product_info_node(st) ==
    IF Len(st.messages) = 0 THEN Raises(st, "IndexError")
    ELSE LET query == LastContent(st)
             response == get_phone_info(None, Some(query), None)
         IN  Returns(Respond(st, response, "product_info"))

repair_info_node(st) ==
    IF Len(st.messages) = 0 THEN Raises(st, "IndexError")
    ELSE LET query == LastContent(st)
             issue == IF Contains("screen", Lower(query)) THEN "screen"
                      ELSE IF Contains("battery", Lower(query)) THEN "battery"
                      ELSE "general repair"
             response == get_repair_info("Phone", issue, Some("standard"))
         IN  Returns(Respond(st, response, "repair_info"))

\* the number of digits query has from position i on
RECURSIVE DigitRun(_, _)
DigitRun(query, i) ==
    IF i <= Len(query) /\ IsDigit(CharAt(query, i)) THEN 1 + DigitRun(query, i + 1) ELSE 0

\* re.search(r'TICKET-\d+', query): the leftmost match, its digits taken greedily
SearchTicket(query) ==
    LET hits == {i \in 1..(Len(query) - 7) :
                    SubSeq(query, i, i + 6) = "TICKET-" /\ DigitRun(query, i + 7) > 0}
    IN  IF hits = {} THEN None
        ELSE LET i == CHOOSE h \in hits : \A g \in hits : h <= g
             IN  Some(SubSeq(query, i, i + 6 + DigitRun(query, i + 7)))

status_check_node(st) ==
    IF Len(st.messages) = 0 THEN Raises(st, "IndexError")
    ELSE LET query == LastContent(st)
             ticket_num == IF Contains("TICKET", query) THEN SearchTicket(query) ELSE None
             response == check_repair_status(ticket_num, None, None)
         IN  Returns(Respond(st, response, "status_check"))

\* a slip that starts the booking flow whatever the message says
appointment_node_always_starts(st) ==
    IF Len(st.messages) = 0 THEN Raises(st, "IndexError")
    ELSE Returns(Respond([st EXCEPT !.collected_info = [step |-> "get_name"]],
                         "Let's book your appointment! What's your name?",
                         "appointment_booking"))

appointment_node(st) ==
    IF Len(st.messages) = 0 THEN Raises(st, "IndexError")
    ELSE LET query == LastContent(st)
             starts == Contains("book appointment", Lower(query))
             response ==
                 IF starts THEN "Let's book your appointment! What's your name?"
                 ELSE "To book an appointment, I'll need:\n1. Your name\n2. Phone model\n"
                      \o "3. Issue description\n4. Preferred date & time\n5. Contact info\n\n"
                      \o "Please provide these details or say 'book appointment' to start the process."
             st1 == IF starts THEN [st EXCEPT !.collected_info = [step |-> "get_name"]]
                    ELSE st
         IN  Returns(Respond(st1, response, "appointment_booking"))

\* conversation[-5:] as role-tagged turns, after the system prompt
LlmTurns(msgs) ==
    LET from == IF Len(msgs) > 5 THEN Len(msgs) - 4 ELSE 1
    IN  <<[role |-> "system"]>> \o
        [k \in 1..(Len(msgs) - from + 1) |->
            [role |-> IF msgs[from + k - 1].role = "human" THEN "user" ELSE "assistant",
             content |-> msgs[from + k - 1].content]]

\* general_chat_node, with what llm.invoke does: reply is the completion's text, or
\* None when the call fails and its exception leaves the node
general_chat_node(st, reply) ==
    IF reply = None THEN Raises(st, "LLMError")
    ELSE Returns(Respond(st, reply[1], "general_chat"))

EscalationMsg ==
    "I'm connecting you to a human agent now.\n\n    In the meantime:\n"
    \o "    - Call: 1-800-PHONEHUB\n    - Email: support@phonehub.com\n"
    \o "    - Live Chat: Available on our website\n\n"
    \o "    Estimated wait time: 5 minutes.\n    Please have your ticket/order number ready."

\* a slip that forgets the escalation flag
human_escalation_node_no_flag(st) ==
    Returns(Respond(st, EscalationMsg, "human_escalation"))

human_escalation_node(st) ==
    Returns([Respond(st, EscalationMsg, "human_escalation") EXCEPT !.needs_human = TRUE])

\* the node functions the module defines
NodeNames == {"product_info_node", "repair_info_node", "status_check_node",
              "appointment_node", "general_chat_node", "human_escalation_node"}

(***************************************************************************)
(* A session: what the user says, what the language model replies          *)
(***************************************************************************)
UserTexts ==
    {"iPhone 15", "I have a special request", "repair status", "My SCREEN is broken",
     "Can you fix my phone?", "Where is TICKET-002? status please", "book appointment",
     "I want to Book Appointment for a repair", "schedule a visit", "help",
     "is it under warranty?", "store hours", "speak to a human",
     "I need an agent to help", "hello", ""}

\* the histories the nodes are invoked on start from one of these
FirstTexts ==
    {"iPhone 15", "My SCREEN is broken", "fix my battery", "check TICKET-001",
     "Where is TICKET-002? status please", "I want to Book Appointment for a repair",
     "schedule a visit", "Book Appointment tomorrow", "hello"}

\* llm.invoke: the text of a completion, or None for a call that fails
LlmOutcomes ==
    {Some("Happy to help! Your ticket number looks like TICKET-001."), None}

MaxMessages == 4

InitSession ==
    /\ current_step = "start" /\ needs_human = FALSE /\ collected_info = <<>>
    /\ routed = None /\ pc = "start" /\ raised = "none"
    /\ appointments = <<>> /\ next_id = 1 /\ returned = <<>>
    /\ now = 0 /\ booked = <<>> /\ call = NoCall
    /\ InitStores

\* the node returned or raised: the state dict it worked on is the session's
Invoke(name, outcome) ==
    /\ messages' = outcome.state.messages
    /\ current_step' = outcome.state.current_step
    /\ needs_human' = outcome.state.needs_human
    /\ collected_info' = outcome.state.collected_info
    /\ raised' = outcome.raised
    /\ pc' = name

ProductInfoNode ==
    /\ Len(messages) < MaxMessages
    /\ Invoke("product_info_node", product_info_node(State))
    /\ UNCHANGED <<storeVars, routed, apptVars, toolVars>>

RepairInfoNode ==
    /\ Len(messages) < MaxMessages
    /\ Invoke("repair_info_node", repair_info_node(State))
    /\ UNCHANGED <<storeVars, routed, apptVars, toolVars>>

StatusCheckNode ==
    /\ Len(messages) < MaxMessages
    /\ Invoke("status_check_node", status_check_node(State))
    /\ UNCHANGED <<storeVars, routed, apptVars, toolVars>>

AppointmentNode ==
    /\ Len(messages) < MaxMessages
    /\ Invoke("appointment_node", appointment_node(State))
    /\ UNCHANGED <<storeVars, routed, apptVars, toolVars>>

GeneralChatNode ==
    /\ Len(messages) < MaxMessages
    /\ \E reply \in LlmOutcomes :
          /\ Invoke("general_chat_node", general_chat_node(State, reply))
          /\ call' = [op |-> "llm.invoke", done |-> TRUE, args |-> LlmTurns(messages)]
    /\ UNCHANGED <<storeVars, routed, apptVars, now, booked>>

HumanEscalationNode ==
    /\ Len(messages) < MaxMessages
    /\ Invoke("human_escalation_node", human_escalation_node(State))
    /\ UNCHANGED <<storeVars, routed, apptVars, toolVars>>

(***************************************************************************)
(* The node functions invoked in any order on a session state              *)
(***************************************************************************)
InitNodes ==
    /\ InitSession
    /\ \E text \in FirstTexts : messages = <<HumanMessage(text)>>

NextNodes ==
    \/ ProductInfoNode
    \/ RepairInfoNode
    \/ StatusCheckNode
    \/ AppointmentNode
    \/ GeneralChatNode
    \/ HumanEscalationNode

SpecNodes == InitNodes /\ [][NextNodes]_vars

(***************************************************************************)
(* A turn: the user's message is routed and the label's handler runs       *)
(***************************************************************************)
\* the node function named after a label, where the module defines one
HandlerOf(label) ==
    CASE label = "product_info" -> Some("product_info_node")
      [] label = "repair_info" -> Some("repair_info_node")
      [] label = "status_check" -> Some("status_check_node")
      [] label = "appointment" -> Some("appointment_node")
      [] label = "general_chat" -> Some("general_chat_node")
      [] label = "human_escalation" -> Some("human_escalation_node")
      [] OTHER -> None

InitTurn ==
    /\ InitSession
    /\ messages = <<>>

UserSays ==
    \E text \in UserTexts :
        /\ pc \notin {"user", "router"}
        /\ Len(messages) + 1 < MaxMessages
        /\ messages' = Append(messages, HumanMessage(text))
        /\ pc' = "user"
        /\ routed' = None
        /\ raised' = "none"
        /\ UNCHANGED <<storeVars, current_step, needs_human, collected_info, apptVars, toolVars>>

\* router(state): the label is all it hands back
Route ==
    /\ pc \in {"user", "router"}
    /\ routed' = Some(router(messages))
    /\ pc' = "router"
    /\ UNCHANGED <<storeVars, messages, current_step, needs_human, collected_info, raised,
                   apptVars, toolVars>>

\* the turn goes on with the node the label names
Dispatch ==
    /\ pc = "router"
    /\ LET h == HandlerOf(routed[1])
       IN  \/ h = Some("product_info_node") /\ ProductInfoNode
           \/ h = Some("repair_info_node") /\ RepairInfoNode
           \/ h = Some("status_check_node") /\ StatusCheckNode
           \/ h = Some("appointment_node") /\ AppointmentNode
           \/ h = Some("general_chat_node") /\ GeneralChatNode
           \/ h = Some("human_escalation_node") /\ HumanEscalationNode
           \/ /\ h = None
              /\ pc' = "no_handler"
              /\ UNCHANGED <<storeVars, messages, current_step, needs_human, collected_info,
                             routed, raised, apptVars, toolVars>>

NextTurn == UserSays \/ Route \/ Dispatch

SpecTurn == InitTurn /\ [][NextTurn]_vars

(***************************************************************************)
(* Properties of the router and the nodes                                  *)
(***************************************************************************)
NineLabels == {"product_info", "repair_info", "status_check", "appointment",
               "troubleshooting", "warranty_check", "contact_info",
               "human_escalation", "general_chat"}

\* the eight categories in priority order, each with its keyword set
Categories ==
    <<[label |-> "product_info", words |-> {"phone", "model", "spec", "price", "buy"}],
      [label |-> "repair_info", words |-> {"repair", "fix", "broken", "damage"}],
      [label |-> "status_check", words |-> {"status", "track", "check", "ticket"}],
      [label |-> "appointment", words |-> {"appointment", "schedule", "book", "meet"}],
      [label |-> "troubleshooting", words |-> {"help", "trouble", "issue", "problem"}],
      [label |-> "warranty_check", words |-> {"warranty", "guarantee", "cover"}],
      [label |-> "contact_info", words |-> {"contact", "store", "location", "hours"}],
      [label |-> "human_escalation",
       words |-> {"human", "agent", "speak to", "representative"}]>>

Matching(text) ==
    {c \in 1..Len(Categories) : \E w \in Categories[c].words : Contains(w, Lower(text))}

PriorityLabel(text) ==
    IF Matching(text) = {} THEN "general_chat"
    ELSE Categories[CHOOSE c \in Matching(text) : \A d \in Matching(text) : c <= d].label

LastMessage == messages[Len(messages)]

\* C1: for a history that ends with a user message, router returns one of the nine
\* labels, that of the first category in priority order with a keyword inside the
\* lower-cased text, or general_chat when there is none; a call of router changes
\* nothing in the state, and a second call on the same state returns the same label.
C1_RouterPriority ==
    /\ [](pc = "router" =>
            /\ LastMessage.role = "human"
            /\ routed # None
            /\ routed[1] \in NineLabels
            /\ routed[1] = PriorityLabel(LastMessage.content))
    /\ [][pc' = "router" =>
            /\ UNCHANGED <<messages, current_step, needs_human, collected_info>>
            /\ (pc = "router" => routed' = routed)]_vars

C1_Witness ==
    /\ pc = "router"
    /\ Len(messages) = 3
    /\ LastMessage = HumanMessage("repair status")
    /\ routed = Some("repair_info")

IsPrefix(a, b) == Len(a) <= Len(b) /\ SubSeq(b, 1, Len(a)) = a

\* C3 as stated: every invocation of a node leaves the earlier history as it was
\* and appends exactly one assistant message.
C3_EveryInvocationAppends ==
    [][pc' \in NodeNames =>
          /\ IsPrefix(messages, messages')
          /\ Len(messages') = Len(messages) + 1
          /\ messages'[Len(messages')].role = "ai"]_vars

\* C3, amended: the history before an invocation is a prefix of the history after
\* it; an invocation that returns appends exactly one assistant message at the end,
\* and the one that raises (general_chat_node, when the language-model call fails)
\* leaves the history as it was.
C3_AppendOnly ==
    [][pc' \in NodeNames =>
          /\ IsPrefix(messages, messages')
          /\ raised' = "none" =>
                /\ Len(messages') = Len(messages) + 1
                /\ messages'[Len(messages')].role = "ai"
          /\ raised' # "none" =>
                /\ pc' = "general_chat_node"
                /\ messages' = messages]_vars

C3_Witness ==
    /\ Len(messages) = 4
    /\ messages[1] = HumanMessage("check TICKET-001")
    /\ \A k \in 2..4 : messages[k].role = "ai"
    /\ pc = "general_chat_node"
    /\ raised = "none"

\* C4: every label the router returns for a user message has a handler, and once
\* the turn has gone past the router the handler has run and its response is the
\* last message of the state handed back.
C4_EveryTurnAnswered ==
    /\ pc = "router" => HandlerOf(routed[1]) # None
    /\ pc \notin {"start", "user", "router"} =>
          /\ pc \in NodeNames
          /\ raised = "none"
          /\ LastMessage.role = "ai"

(***************************************************************************)
(* Properties of human_escalation_node and appointment_node                *)
(***************************************************************************)
\* C11: whatever the session state and its last message, human_escalation_node
\* returns, appends one and the same message (it names the support phone number,
\* the email address and a 5 minute wait) and sets needs_human; and when needs_human
\* is set, no invocation of any node clears it.
C11_Escalation ==
    [][/\ pc' = "human_escalation_node" =>
             /\ raised' = "none"
             /\ messages' = Append(messages, AIMessage(EscalationMsg))
             /\ Contains("1-800-PHONEHUB", messages'[Len(messages')].content)
             /\ Contains("support@phonehub.com", messages'[Len(messages')].content)
             /\ Contains("wait time: 5 minutes", messages'[Len(messages')].content)
             /\ needs_human' = TRUE
       /\ (pc' \in NodeNames /\ needs_human) => needs_human']_vars

\* escalated, then another node answered, then escalated again: the flag stayed set
\* and the two escalation messages are the same
C11_Witness ==
    /\ pc = "human_escalation_node"
    /\ needs_human
    /\ Len(messages) = 4
    /\ messages[2] = AIMessage(EscalationMsg)
    /\ messages[3].role = "ai" /\ messages[3].content # EscalationMsg
    /\ messages[4] = messages[2]

NamePrompt == "Let's book your appointment! What's your name?"

\* the last message is a user message that the router labels appointment
BookingIntent == LastMessage.role = "human" /\ router(messages) = "appointment"

StartsBooking == Contains("book appointment", Lower(LastMessage.content))

GetNameStep(info) == DOMAIN info = {"step"} /\ info["step"] = "get_name"

\* C12 as stated: for every message with a booking intent that appointment_node
\* handles, the node answers with the prompt for the customer's name and sets the
\* step of collected_info to the name-collection step.
C12_AlwaysAsksName ==
    [][(pc' = "appointment_node" /\ BookingIntent) =>
          /\ messages' = Append(messages, AIMessage(NamePrompt))
          /\ GetNameStep(collected_info')]_vars

\* C12, amended: appointment_node asks for the name and sets the step of
\* collected_info to get_name exactly when the lower-cased message contains
\* "book appointment"; for any other message with a booking intent it answers with
\* the list of the five details it needs and leaves collected_info as it was. Either
\* way it returns, sets current_step to appointment_booking, stores no booking field
\* and does not call book_appointment.
C12_AsksNameOnBookAppointment ==
    [][(pc' = "appointment_node" /\ BookingIntent) =>
          /\ raised' = "none"
          /\ current_step' = "appointment_booking"
          /\ Len(messages') = Len(messages) + 1 /\ IsPrefix(messages, messages')
          /\ messages'[Len(messages')].role = "ai"
          /\ IF StartsBooking
             THEN /\ messages'[Len(messages')].content = NamePrompt
                  /\ GetNameStep(collected_info')
             ELSE /\ Contains("1. Your name\n2. Phone model\n3. Issue description\n"
                              \o "4. Preferred date & time\n5. Contact info",
                              messages'[Len(messages')].content)
                  /\ collected_info' = collected_info
          /\ UNCHANGED <<appointments, next_id, returned, now, booked, call>>]_vars

C12_Witness ==
    /\ pc = "appointment_node"
    /\ messages = <<HumanMessage("Book Appointment tomorrow"), AIMessage(NamePrompt)>>
    /\ GetNameStep(collected_info)
    /\ current_step = "appointment_booking"

====
